---- MODULE Spec2Model ----
(***************************************************************************)
(* A model of openlane/__main__.py: the click command `cli`, from the      *)
(* parsing of its options to the exit status of the process.               *)
(*                                                                         *)
(* Python values: an Optional[str] is a string, with None the sentinel     *)
(* below; an Optional path is a sequence of path components, with          *)
(* NonePath the absent one; config_in.meta.flow is a tagged value, a       *)
(* string (PyStr) or a list of step ids (PyList).                          *)
(***************************************************************************)
EXTENDS Integers, Sequences, FiniteSets, TLC

\* ------------------------------------------------------------------ bounds
MaxRuns == 2        \* entries of design_dir/runs/
MaxMtime == 2       \* modification times range over 0 .. MaxMtime
MaxErrors == 2      \* length of InvalidConfig.errors
MaxWarnings == 2    \* length of InvalidConfig.warnings
MaxSteps == 2       \* length of a list-valued meta.flow
MaxPatternRuns == 1 \* entries of runs/ where design_dir reads as a glob pattern

None == "<None>"
NonePath == <<>>

PyStr(s) == [type |-> "str", s |-> s, l |-> <<>>]
PyList(l) == [type |-> "list", s |-> "", l |-> l]

\* Sequences over S of length lo..hi
SeqsOf(S, lo, hi) == UNION {[1..n -> S] : n \in lo..hi}

\* ------------------------------------------------- the flow registry
\* Flow.factory.list(): the names of the built-in flows
FlowRegistry == {"Classic", "Optimizing"}

\* The strings a flow may be named by, on the command line or in the
\* configuration's meta object
FlowStrings == {"Classic", "classic", "CLASSIC", "Optimizing", "Bogus", ""}

\* str.casefold(), on FlowStrings
Lower(s) ==
    CASE s \in {"Classic", "classic", "CLASSIC"} -> "classic"
      [] s = "Optimizing" -> "optimizing"
      [] s = "Bogus" -> "bogus"
      [] OTHER -> s

\* Flow.factory.get(name): the registered class, or None
FactoryGet(name) ==
    IF \E c \in FlowRegistry : Lower(c) = Lower(name)
    THEN CHOOSE c \in FlowRegistry : Lower(c) = Lower(name)
    ELSE None

\* click.Choice(Flow.factory.list(), case_sensitive=False).convert(value):
\* the choice as registered, or None where click fails the parameter
ChoiceConvert(value) ==
    IF \E c \in FlowRegistry : Lower(c) = Lower(value)
    THEN CHOOSE c \in FlowRegistry : Lower(c) = Lower(value)
    ELSE None

\* SequentialFlow.make(step_ids): the ad-hoc flow class over the step ids
SequentialMake(steps) == [kind |-> "sequential", name |-> "", steps |-> steps]

\* A class of the registry, as a TargetFlow
Registered(c) == [kind |-> "registered", name |-> c, steps |-> <<>>]

NoFlow == [kind |-> "none", name |-> "", steps |-> <<>>]

\* ------------------------------------------------- messages and calls
Msg(fn, text, arg) == [fn |-> fn, text |-> text, arg |-> arg]
Call(fn, args) == [fn |-> fn, args |-> args]

\* What the interpreter writes to stderr for an exception no handler catches
Traceback(exc) == Msg("traceback", "Traceback (most recent call last)", exc)

\* The exit status of the interpreter after an uncaught exception
UncaughtExit == 1

\* click's exit status for a usage error (UsageError.exit_code)
UsageExit == 2

\* ------------------------------------------------- the command line
\* What else the command line holds, as click's parser meets it: nothing
\* amiss; --help; an option cli does not declare, or an option without its
\* value; no config_file argument; positional arguments after config_file
CmdLines == {"ok", "help", "bad_option", "no_config_file", "extra_args"}

Argvs ==
    [cmdline : CmdLines,
     flow : {None, "classic", "Bogus"},
     run_tag : {None, "", "t1"},
     last_run : BOOLEAN,
     frm : {None, "s1"},
     to : {None, "s2"},
     initial_state_json : {None, "state.json"}]

\* ------------------------------------------------- the environment
StepIds == {"s1", "s2"}
ErrorTexts == {"e1", "e2"}
WarningTexts == {"w1", "w2"}

MetaFlows ==
    {PyStr(s) : s \in {"Classic", "CLASSIC", "Bogus", ""}}
      \cup {PyList(l) : l \in SeqsOf(StepIds, 0, MaxSteps)}

\* The directories ConfigBuilder.load may return as design_dir: a plain
\* name, and a name with a character class in it
DesignDirs == {"design", "de[s]ign"}

LoadResult(kind, meta, dir, errors, warnings) ==
    [kind |-> kind, meta |-> meta, design_dir |-> dir, errors |-> errors,
     warnings |-> warnings]

\* What ConfigBuilder.load can do: return, or raise InvalidConfig, a
\* ValueError, or an exception cli has no handler for
LoadResults ==
    {LoadResult("ok", m, "design", <<>>, <<>>) : m \in MetaFlows}
      \cup {LoadResult("ok", PyStr("Classic"), d, <<>>, <<>>) : d \in DesignDirs}
      \cup {LoadResult("InvalidConfig", PyStr(""), "", e, w) :
              e \in SeqsOf(ErrorTexts, 1, MaxErrors),
              w \in SeqsOf(WarningTexts, 0, MaxWarnings)}
      \cup {LoadResult("ValueError", PyStr(""), "", <<>>, <<>>),
            LoadResult("Exception", PyStr(""), "", <<>>, <<>>)}

NoLoad == LoadResult("none", PyStr(""), "", <<>>, <<>>)

\* open(path).read() and State.loads(text): the state; open raising OSError;
\* read raising UnicodeDecodeError, a ValueError, on a file that is not
\* UTF-8; State.loads raising ValueError on a malformed text
StateResults == {"ok", "OSError", "UnicodeDecodeError", "ValueError"}

\* The class the traceback of a failed state loading names
StateExc(r) == IF r = "OSError" THEN "OSError" ELSE "ValueError"

\* flow.start(...)
StartOutcomes == {"return", "FlowException", "FlowError", "Exception"}

RunNames == {"r1", "r2", ".r3"}

\* A name glob's "*" does not match: one with a leading dot
IsHidden(name) == name \in {".r3"}

Mtimes == 0 .. MaxMtime

\* An entry of runs/: stat is "ok" when os.path.getmtime returns mtime, and
\* "gone" when it raises OSError (a dangling symlink, or an entry removed
\* after glob returned)
DirEntries ==
    [name : RunNames, mtime : Mtimes, stat : {"ok"}]
      \cup [name : RunNames, mtime : {0}, stat : {"gone"}]

\* design_dir/runs/ as os.scandir enumerates it: entries of distinct names
DirListings ==
    {d \in SeqsOf(DirEntries, 0, MaxRuns) :
        \A i, j \in 1..Len(d) : i # j => d[i].name # d[j].name}

\* The listings of a runs/ where design_dir reads as a pattern
PatternListings ==
    {d \in DirListings :
        /\ Len(d) <= MaxPatternRuns
        /\ \A i \in 1..Len(d) : d[i].stat = "ok" /\ ~IsHidden(d[i].name)}

\* glob.has_magic(design_dir): the name holds one of * ? [
HasMagic(dir) == dir \in {"de[s]ign"}

\* The directory the pattern design_dir matches: the name itself without
\* magic characters; with the class [s], the name with s in its place
GlobDir(dir) == IF dir = "de[s]ign" THEN "design" ELSE dir

\* ------------------------------------------------- state
VARIABLES
    argv,            \* the options as given on the command line
    pc,              \* the position of the invocation
    flow_name,       \* cli's parameter, as click converted it
    run_tag,         \* cli's parameter, reassigned under --last-run
    config_result,   \* what ConfigBuilder.load did
    flow_description,
    TargetFlow,
    flow,            \* the instance TargetFlow(config_in, design_dir)
    state_result,    \* what reading the initial-state file did
    initial_state,
    dir_entries,     \* design_dir/runs/ as enumerated
    other_entries,   \* runs/ of the directory a design_dir with magic matches
    runs,            \* glob.glob(design_dir/runs/*)
    start_outcome,   \* what flow.start did
    completed,       \* the stages that finished without exiting
    calls,           \* the calls made to the collaborators, in order
    out,             \* the messages emitted, in order
    exit_code        \* the exit status, meaningful once pc = "done"

vars == <<argv, pc, flow_name, run_tag, config_result, flow_description,
          TargetFlow, flow, state_result, initial_state, dir_entries,
          other_entries, runs, start_outcome, completed, calls, out, exit_code>>

Init ==
    /\ argv \in Argvs
    /\ pc = "parse"
    /\ flow_name = None
    /\ run_tag = argv.run_tag
    /\ config_result = NoLoad
    /\ flow_description = PyStr("")
    /\ TargetFlow = NoFlow
    /\ flow = NoFlow
    /\ state_result = "none"
    /\ initial_state = None
    /\ dir_entries = <<>>
    /\ other_entries = <<>>
    /\ runs = <<>>
    /\ start_outcome = "none"
    /\ completed = {}
    /\ calls = <<>>
    /\ out = <<>>
    /\ exit_code = 0

\* A variant that reports and carries on to the dispatch
Exit_FallThrough(code, msgs) ==
    /\ exit_code' = code
    /\ out' = out \o msgs
    /\ pc' = "start"
    /\ UNCHANGED completed

\* exit(code), or the interpreter ending on an uncaught exception
Exit(code, msgs) ==
    /\ exit_code' = code
    /\ out' = out \o msgs
    /\ pc' = "done"
    /\ UNCHANGED completed

\* The stage finished: on to the next one
Advance(stage, next) ==
    /\ pc' = next
    /\ completed' = completed \cup {stage}
    /\ UNCHANGED exit_code

\* ------------------------------------------------- option parsing
\* click converts --flow through click.Choice before it calls cli
FlowOptionFails(value) == value # None /\ ChoiceConvert(value) = None

\* What click does with the command line before it calls cli, in click's
\* order: the parser fails on an option it does not know or one without its
\* value; the eager --help prints the help and exits 0; the parameters are
\* then converted, those given first, so a --flow value that is no choice
\* fails before the missing argument is reported; arguments left over once
\* every parameter has its value fail last, and only a command line that
\* passes all of it enters cli. Every failure is a usage error.
ClickOutcome(a) ==
    CASE a.cmdline = "bad_option" ->
           [enter |-> FALSE, code |-> UsageExit,
            msg |-> Msg("usage", "No such option, or option requires an argument", "")]
      [] a.cmdline = "help" ->
           [enter |-> FALSE, code |-> 0, msg |-> Msg("help", "Usage: cli [OPTIONS] CONFIG_FILE", "")]
      [] FlowOptionFails(a.flow) ->
           [enter |-> FALSE, code |-> UsageExit,
            msg |-> Msg("usage", "Invalid value for '-f' / '--flow'", a.flow)]
      [] a.cmdline = "no_config_file" ->
           [enter |-> FALSE, code |-> UsageExit,
            msg |-> Msg("usage", "Missing argument 'CONFIG_FILE'", "")]
      [] a.cmdline = "extra_args" ->
           [enter |-> FALSE, code |-> UsageExit,
            msg |-> Msg("usage", "Got unexpected extra argument", "extra")]
      [] OTHER ->
           [enter |-> TRUE, code |-> 0, msg |-> Msg("", "", "")]

ClickParse ==
    /\ pc = "parse"
    /\ IF ~ClickOutcome(argv).enter
       THEN /\ Exit(ClickOutcome(argv).code, <<ClickOutcome(argv).msg>>)
            /\ UNCHANGED flow_name
       ELSE /\ flow_name' = IF argv.flow = None THEN None ELSE ChoiceConvert(argv.flow)
            /\ Advance("parse", "cli")
            /\ UNCHANGED out
    /\ UNCHANGED <<state_result, argv, run_tag, config_result, flow_description, TargetFlow,
                   flow, initial_state, dir_entries, other_entries, runs, start_outcome, calls>>

\* ------------------------------------------------- mutual exclusion
\* A variant that tests the tag's truth value instead of its presence
MutuallyExclusive_Truthy(tag, last) == tag # None /\ tag # "" /\ last

MutuallyExclusive(tag, last) == tag # None /\ last

CheckOptions ==
    /\ pc = "cli"
    /\ IF MutuallyExclusive(run_tag, argv.last_run)
       THEN Exit(1, <<Msg("err", "--run-tag and --last-run are mutually exclusive.", "")>>)
       ELSE Advance("cli", "load") /\ UNCHANGED out
    /\ UNCHANGED <<state_result, argv, flow_name, run_tag, config_result, flow_description,
                   TargetFlow, flow, initial_state, dir_entries, other_entries, runs,
                   start_outcome, calls>>

\* ------------------------------------------------- configuration
\* err(error) for error in e.errors / warn(warning) for warning in e.warnings
Each(fn, texts) == [i \in 1..Len(texts) |-> Msg(fn, "", texts[i])]

\* A variant that reports the first error only
InvalidConfigReport_FirstOnly(e) ==
    <<Msg("log", "Errors have occurred while loading the", "config"),
      Msg("err", "", e.errors[1])>>
      \o (IF Len(e.warnings) > 0
          THEN <<Msg("log", "The following warnings have also been generated:", "")>>
                 \o Each("warn", e.warnings)
          ELSE <<>>)
      \o <<Msg("log", "OpenLane will now quit. Please check your configuration.", "")>>

\* The handler of InvalidConfig
InvalidConfigReport(e) ==
    <<Msg("log", "Errors have occurred while loading the", "config")>>
      \o Each("err", e.errors)
      \o (IF Len(e.warnings) > 0
          THEN <<Msg("log", "The following warnings have also been generated:", "")>>
                 \o Each("warn", e.warnings)
          ELSE <<>>)
      \o <<Msg("log", "OpenLane will now quit. Please check your configuration.", "")>>

\* The handler of ValueError
ValueErrorReport(e) ==
    <<Msg("err", "", "ValueError"), Msg("log", "OpenLane will now quit.", "")>>

LoadConfig ==
    /\ pc = "load"
    /\ \E r \in LoadResults :
        /\ config_result' = r
        /\ calls' = Append(calls, Call("ConfigBuilder.load", <<"config_file">>))
        /\ CASE r.kind = "ok" -> Advance("load", "resolve") /\ UNCHANGED out
             [] r.kind = "InvalidConfig" -> Exit(1, InvalidConfigReport(r))
             [] r.kind = "ValueError" -> Exit(1, ValueErrorReport(r))
             [] OTHER -> Exit(UncaughtExit, <<Traceback("Exception")>>)
    /\ UNCHANGED <<state_result, argv, flow_name, run_tag, flow_description, TargetFlow, flow,
                   initial_state, dir_entries, other_entries, runs, start_outcome>>

\* ------------------------------------------------- flow resolution
\* bool(x) of an Optional[str]
Truthy(x) == x # None /\ x # ""

\* A variant that lets a named flow of the configuration win
FlowDescription_MetaFirst(name, meta) ==
    IF meta.type = "str" /\ meta.s # "" THEN meta
    ELSE IF name # None /\ name # "" THEN PyStr(name) ELSE meta

\* flow_name or config_in.meta.flow
FlowDescription(name, meta) == IF Truthy(name) THEN PyStr(name) ELSE meta

UnknownFlowMsg(description) ==
    Msg("err", "Unknown flow specified in configuration's 'meta' object.", description)

ResolveFlow ==
    /\ pc = "resolve"
    /\ LET d == FlowDescription(flow_name, config_result.meta) IN
        /\ flow_description' = d
        /\ IF d.type # "str"
           THEN /\ TargetFlow' = SequentialMake(d.l)
                /\ calls' = Append(calls, Call("SequentialFlow.make", d.l))
                /\ Advance("resolve", "instantiate")
                /\ UNCHANGED out
           ELSE /\ calls' = Append(calls, Call("Flow.factory.get", <<d.s>>))
                /\ IF FactoryGet(d.s) # None
                   THEN /\ TargetFlow' = Registered(FactoryGet(d.s))
                        /\ Advance("resolve", "instantiate")
                        /\ UNCHANGED out
                   ELSE /\ Exit(1, <<UnknownFlowMsg(d.s)>>)
                        /\ UNCHANGED TargetFlow
    /\ UNCHANGED <<state_result, argv, flow_name, run_tag, config_result, flow, initial_state,
                   dir_entries, other_entries, runs, start_outcome>>

\* flow = TargetFlow(config_in, design_dir)
Instantiate ==
    /\ pc = "instantiate"
    /\ flow' = TargetFlow
    /\ calls' = Append(calls, Call("TargetFlow", <<config_result.design_dir>>))
    /\ Advance("instantiate", "state")
    /\ UNCHANGED <<state_result, argv, flow_name, run_tag, config_result, flow_description,
                   TargetFlow, initial_state, dir_entries, other_entries, runs, start_outcome, out>>

\* ------------------------------------------------- the initial state
\* A variant that reads a state file whether or not a path was given
StatePathGiven_Always(path) == TRUE

\* if initial_state_json is not None
StatePathGiven(path) == path # None

LoadState ==
    /\ pc = "state"
    /\ IF ~StatePathGiven(argv.initial_state_json)
       THEN /\ initial_state' = None
            /\ Advance("state", "runs")
            /\ UNCHANGED <<state_result, calls, out>>
       ELSE \E r \in StateResults :
            /\ state_result' = r
            /\ CASE r = "ok" ->
                   /\ initial_state' = "state"
                   /\ calls' = calls \o <<Call("open", <<argv.initial_state_json>>),
                                          Call("State.loads", <<"text">>)>>
                   /\ Advance("state", "runs")
                   /\ UNCHANGED out
              [] r \in {"OSError", "UnicodeDecodeError"} ->
                   /\ calls' = Append(calls, Call("open", <<argv.initial_state_json>>))
                   /\ Exit(UncaughtExit, <<Traceback(StateExc(r))>>)
                   /\ UNCHANGED initial_state
              [] OTHER ->
                   /\ calls' = calls \o <<Call("open", <<argv.initial_state_json>>),
                                          Call("State.loads", <<"text">>)>>
                   /\ Exit(UncaughtExit, <<Traceback(StateExc(r))>>)
                   /\ UNCHANGED initial_state
    /\ UNCHANGED <<argv, flow_name, run_tag, config_result, flow_description,
                   TargetFlow, flow, dir_entries, other_entries, runs, start_outcome>>

\* ------------------------------------------------- the run tag
\* os.path.join(design_dir, "runs", name)
RunPath(dir, name) == <<dir, "runs", name>>

\* os.path.basename(path)
Basename(path) == path[Len(path)]

\* The entries of a listing that "*" matches, as paths under dir, in the
\* order of enumeration, with their mtimes
Matched(dir, listing) ==
    LET F[i \in 0..Len(listing)] ==
          IF i = 0 THEN <<>>
          ELSE IF IsHidden(listing[i].name) THEN F[i - 1]
          ELSE Append(F[i - 1], [path |-> RunPath(dir, listing[i].name),
                                 mtime |-> listing[i].mtime,
                                 stat |-> listing[i].stat])
    IN F[Len(listing)]

\* glob.glob(os.path.join(design_dir, "runs", "*")): design_dir is part of
\* the pattern, so with magic characters in it the runs/ that is read is
\* that of the directory the pattern matches (other), not its own (own)
Glob(dir, own, other) ==
    IF HasMagic(dir) THEN Matched(GlobDir(dir), other) ELSE Matched(dir, own)

\* The sentinel latest_time starts from
InitialLatestTime == 0

\* The loop over runs: latest_time and latest_run after it, and in raised
\* the index of the run whose os.path.getmtime raised, which ends the loop
\* (0 when none did)
LatestScan(rs) ==
    LET F[i \in 0..Len(rs)] ==
          IF i = 0
          THEN [latest_time |-> InitialLatestTime, latest_run |-> NonePath, raised |-> 0]
          ELSE IF F[i - 1].raised # 0 THEN F[i - 1]
          ELSE IF rs[i].stat # "ok" THEN [F[i - 1] EXCEPT !.raised = i]
          ELSE IF rs[i].mtime > F[i - 1].latest_time
               THEN [latest_time |-> rs[i].mtime, latest_run |-> rs[i].path, raised |-> 0]
               ELSE F[i - 1]
    IN F[Len(rs)]

LatestRun(rs) == LatestScan(rs).latest_run

\* os.path.getmtime raised in the loop
ScanRaised(rs) == LatestScan(rs).raised # 0

\* The calls of os.path.getmtime the loop makes: one per run, up to the one
\* that raises
MtimeCalls(rs) ==
    LET n == IF ScanRaised(rs) THEN LatestScan(rs).raised ELSE Len(rs)
    IN [i \in 1..n |-> Call("os.path.getmtime", rs[i].path)]

\* The state of the file system the scan meets: the listing of
\* design_dir/runs and, where design_dir reads as a pattern, that of the
\* runs/ of the directory it matches (empty when there is none)
Listings(dir) ==
    IF HasMagic(dir)
    THEN {<<d, o>> : d \in PatternListings, o \in PatternListings}
    ELSE {<<d, <<>> >> : d \in DirListings}

ResolveRun ==
    /\ pc = "runs"
    /\ IF ~argv.last_run
       THEN /\ Advance("runs", "start")
            /\ UNCHANGED <<run_tag, dir_entries, other_entries, runs, calls, out>>
       ELSE \E l \in Listings(config_result.design_dir) :
            LET g == Glob(config_result.design_dir, l[1], l[2]) IN
            /\ dir_entries' = l[1]
            /\ other_entries' = l[2]
            /\ runs' = g
            /\ calls' = calls
                  \o <<Call("glob.glob", RunPath(config_result.design_dir, "*"))>>
                  \o MtimeCalls(g)
            /\ IF ScanRaised(g)
               THEN /\ Exit(UncaughtExit, <<Traceback("OSError")>>)
                    /\ UNCHANGED run_tag
               ELSE IF LatestRun(g) = NonePath
               THEN /\ Exit(1, <<Msg("err", "--last-run specified, but no runs found.", "")>>)
                    /\ UNCHANGED run_tag
               ELSE /\ run_tag' = Basename(LatestRun(g))
                    /\ Advance("runs", "start")
                    /\ UNCHANGED out
    /\ UNCHANGED <<state_result, argv, flow_name, config_result, flow_description, TargetFlow,
                   flow, initial_state, start_outcome>>

\* ------------------------------------------------- dispatch
\* The exit status after flow.start
StartExit(outcome) ==
    CASE outcome = "return" -> 0
      [] outcome = "FlowException" -> 1
      [] outcome = "FlowError" -> 2
      [] OTHER -> UncaughtExit

StartReport(outcome) ==
    CASE outcome = "return" -> <<>>
      [] outcome = "FlowException" ->
           <<Msg("err", "The flow has encountered an unexpected error:", "FlowException"),
             Msg("err", "OpenLane will now quit.", "")>>
      [] outcome = "FlowError" ->
           <<Msg("err", "The following error was encountered while running the flow:", "FlowError"),
             Msg("err", "OpenLane will now quit.", "")>>
      [] OTHER -> <<Traceback("Exception")>>

\* A variant that passes the step bounds in the wrong order
StartCall_Swapped(tag, frm, to, state) == Call("flow.start", <<tag, to, frm, state>>)

\* flow.start(tag=run_tag, frm=frm, to=to, with_initial_state=initial_state)
StartCall(tag, frm, to, state) == Call("flow.start", <<tag, frm, to, state>>)

Start ==
    /\ pc = "start"
    /\ \E o \in StartOutcomes :
        /\ start_outcome' = o
        /\ calls' = Append(calls, StartCall(run_tag, argv.frm, argv.to, initial_state))
        /\ exit_code' = StartExit(o)
        /\ out' = out \o StartReport(o)
        /\ pc' = "done"
        /\ completed' = IF o = "return" THEN completed \cup {"start"} ELSE completed
    /\ UNCHANGED <<state_result, argv, flow_name, run_tag, config_result, flow_description,
                   TargetFlow, flow, initial_state, dir_entries, other_entries, runs>>

Next ==
    \/ ClickParse
    \/ CheckOptions
    \/ LoadConfig
    \/ ResolveFlow
    \/ Instantiate
    \/ LoadState
    \/ ResolveRun
    \/ Start

Spec == Init /\ [][Next]_vars

\* ------------------------------------------------- properties
Called(fn) == \E i \in 1..Len(calls) : calls[i].fn = fn
CallsOf(fn) == SelectSeq(calls, LAMBDA c : c.fn = fn)
Emitted(m) == \E i \in 1..Len(out) : out[i] = m

\* cli was entered: click accepted the command line
CliEntered == "parse" \in completed

ConflictMsg == Msg("err", "--run-tag and --last-run are mutually exclusive.", "")
NoRunsMsg == Msg("err", "--last-run specified, but no runs found.", "")

\* C1: an invocation of cli with a run tag and --last-run both set exits
\* with status 1 at the mutual-exclusion check: ConfigBuilder.load is not
\* called, no flow is resolved or instantiated, flow.start is not invoked.
C1_ConflictExitsBeforeLoad ==
    (CliEntered /\ pc # "cli" /\ argv.run_tag # None /\ argv.last_run) =>
        /\ pc = "done"
        /\ exit_code = 1
        /\ out = <<ConflictMsg>>
        /\ calls = <<>>
        /\ config_result = NoLoad
        /\ TargetFlow = NoFlow
        /\ flow = NoFlow

C1_Witness ==
    /\ pc = "done"
    /\ CliEntered
    /\ argv.run_tag = ""
    /\ argv.last_run
    /\ exit_code = 1

\* The exit status follows the outcome of flow.start alone
StartDecidesExit ==
    Called("flow.start") =>
        /\ start_outcome = "return" => exit_code = 0
        /\ start_outcome = "FlowError" => exit_code = 2
        /\ start_outcome = "FlowException" => exit_code = 1

\* C2: once flow.start is invoked the exit status is 0, 2 or 1 by its
\* outcome, and status 2 is produced by no other stage of the invocation,
\* option validation included -- stated for a command line that is complete
\* and holds declared options only.
C2_StartDecidesExit ==
    (pc = "done" /\ argv.cmdline = "ok") =>
        /\ StartDecidesExit
        /\ exit_code = 2 => start_outcome = "FlowError"

\* The entries of runs/ all have a modification time, and these are
\* pairwise distinct
DistinctMtimes(dir) ==
    /\ \A i \in 1..Len(dir) : dir[i].stat = "ok"
    /\ \A i, j \in 1..Len(dir) : i # j => dir[i].mtime # dir[j].mtime

\* The entry of the greatest modification time
Greatest(dir) ==
    CHOOSE i \in 1..Len(dir) : \A j \in 1..Len(dir) : dir[j].mtime <= dir[i].mtime

\* --last-run was set and runs/ has been scanned
RunsScanned == argv.last_run /\ Called("glob.glob")

\* C3: under --last-run, with at least one entry in runs/ and pairwise
\* distinct modification times (0 included), in any order of enumeration,
\* the tag passed to flow.start is the name of the entry of the greatest
\* modification time.
C3_LastRunPicksGreatest ==
    (RunsScanned /\ Len(dir_entries) >= 1 /\ DistinctMtimes(dir_entries)) =>
        /\ run_tag = dir_entries[Greatest(dir_entries)].name
        /\ pc = "done" =>
              /\ Called("flow.start")
              /\ CallsOf("flow.start")[1].args[1] = dir_entries[Greatest(dir_entries)].name

\* C4: under --last-run, once the earlier stages have succeeded, an empty
\* runs/ ends the process with status 1 and the no-runs-found diagnostic,
\* flow.start not invoked; and that exit happens only when runs/ is empty.
C4_NoRunsIffEmpty ==
    RunsScanned =>
        /\ Len(dir_entries) = 0 =>
              (pc = "done" /\ exit_code = 1 /\ Emitted(NoRunsMsg) /\ ~Called("flow.start"))
        /\ Emitted(NoRunsMsg) => Len(dir_entries) = 0

\* The string chosen as the flow description: the --flow value if given,
\* else the string in the configuration's meta object
ChosenIsString(v) ==
    \/ argv.flow = v
    \/ argv.flow = None /\ config_result.kind = "ok" /\ config_result.meta = PyStr(v)

Unregistered(v) == \A c \in FlowRegistry : Lower(c) # Lower(v)

\* No stage before the flow resolution has failed, on a command line that
\* is complete and holds declared options only
NoEarlierFailure ==
    /\ argv.cmdline = "ok"
    /\ ~(argv.run_tag # None /\ argv.last_run)
    /\ config_result.kind \in {"none", "ok"}

\* C5: a string flow description that matches no registered name, from
\* --flow or from the configuration alike, ends the process with status 1
\* and an unknown-flow diagnostic naming that string, no flow instantiated
\* or started.
C5_UnknownFlow ==
    \A v \in FlowStrings :
        (pc = "done" /\ NoEarlierFailure /\ ChosenIsString(v) /\ Unregistered(v)) =>
            /\ exit_code = 1
            /\ Emitted(Msg("err", "Unknown flow specified in configuration's 'meta' object.", v))
            /\ ~Called("TargetFlow")
            /\ ~Called("flow.start")

\* The flow resolution has acted
FlowResolved == Called("SequentialFlow.make") \/ Called("Flow.factory.get")

\* C6: the flow description is the --flow name when given, else the value
\* of the configuration's meta object; a list of step ids (the empty list
\* included) yields the flow of SequentialFlow.make over exactly that list,
\* in order, and Flow.factory.get is not called.
C6_FlowResolution ==
    FlowResolved =>
        /\ argv.flow # None =>
              /\ flow_description.type = "str"
              /\ Lower(flow_description.s) = Lower(argv.flow)
              /\ TargetFlow.kind = "registered"
        /\ argv.flow = None => flow_description = config_result.meta
        /\ flow_description.type = "list" =>
              /\ argv.flow = None
              /\ TargetFlow = [kind |-> "sequential", name |-> "",
                               steps |-> config_result.meta.l]
              /\ CallsOf("SequentialFlow.make") =
                    <<Call("SequentialFlow.make", config_result.meta.l)>>
              /\ ~Called("Flow.factory.get")
              /\ Called("TargetFlow") => flow = TargetFlow

C6_Witness ==
    /\ Called("flow.start")
    /\ config_result.meta = PyList(<<"s2", "s1">>)
    /\ flow.kind = "sequential"
    /\ flow.steps = <<"s2", "s1">>

\* The arguments of the messages emitted through fn, in order
ArgsOf(fn) ==
    LET ms == SelectSeq(out, LAMBDA m : m.fn = fn)
    IN [i \in 1..Len(ms) |-> ms[i].arg]

\* C7: a failure of the configuration loading ends the process with
\* status 1, no flow resolved or started; every error of the failure's
\* list is emitted and every warning of the same stage displayed.
C7_ConfigFailure ==
    (pc = "done" /\ config_result.kind \in {"InvalidConfig", "ValueError", "Exception"}) =>
        /\ exit_code = 1
        /\ calls = <<Call("ConfigBuilder.load", <<"config_file">>)>>
        /\ TargetFlow = NoFlow
        /\ flow = NoFlow
        /\ config_result.kind = "InvalidConfig" =>
              /\ ArgsOf("err") = config_result.errors
              /\ ArgsOf("warn") = config_result.warnings
        /\ config_result.kind = "ValueError" => ArgsOf("err") = <<"ValueError">>
        /\ config_result.kind = "Exception" => out = <<Traceback("Exception")>>

C7_Witness ==
    /\ pc = "done"
    /\ config_result.kind = "InvalidConfig"
    /\ config_result.errors = <<"e2", "e1">>
    /\ config_result.warnings = <<"w1", "w2">>
    /\ exit_code = 1

\* The stages in their order
StageRank(p) ==
    CASE p = "parse" -> 0
      [] p = "cli" -> 1
      [] p = "load" -> 2
      [] p = "resolve" -> 3
      [] p = "instantiate" -> 4
      [] p = "state" -> 5
      [] p = "runs" -> 6
      [] p = "start" -> 7
      [] OTHER -> 8

\* C8 (as stated): the flow is instantiated only after the configuration
\* loading, the flow resolution, the state loading and the run resolution
\* have all succeeded.
C8_Original ==
    Called("TargetFlow") => {"load", "resolve", "state", "runs"} \subseteq completed

\* The stage a call belongs to
CallStage(fn) ==
    CASE fn = "ConfigBuilder.load" -> "load"
      [] fn \in {"SequentialFlow.make", "Flow.factory.get"} -> "resolve"
      [] fn = "TargetFlow" -> "instantiate"
      [] fn \in {"open", "State.loads"} -> "state"
      [] fn \in {"glob.glob", "os.path.getmtime"} -> "runs"
      [] OTHER -> "start"

\* The calls of cs that belong to the stage p or to an earlier one
CallsUpTo(p, cs) == SelectSeq(cs, LAMBDA c : StageRank(CallStage(c.fn)) <= StageRank(p))

\* C8 (amended): every step moves to a later stage, none is entered twice;
\* the flow is instantiated at most once, after the configuration loading
\* and the flow resolution have succeeded and before the state loading and
\* the run resolution; flow.start is invoked at most once, after all four
\* have succeeded; a stage that fails ends the process, with no call made
\* after it.
C8_SinglePass ==
    [][/\ StageRank(pc') > StageRank(pc)
       /\ Len(CallsOf("TargetFlow")') <= 1
       /\ Len(CallsOf("flow.start")') <= 1
       /\ Called("TargetFlow")' => {"load", "resolve"} \subseteq completed'
       /\ (Called("TargetFlow")' /\ ~Called("TargetFlow")) =>
             (~Called("open")' /\ ~Called("glob.glob")' /\ ~Called("flow.start")')
       /\ Called("flow.start")' =>
             {"parse", "cli", "load", "resolve", "instantiate", "state", "runs"}
                \subseteq completed'
       /\ (completed' = completed /\ ~Called("flow.start")') =>
             /\ pc' = "done"
             /\ calls' = CallsUpTo(pc, calls')
             /\ exit_code' # 0 \/ (pc = "parse" /\ argv.cmdline = "help")]_vars

C8_Witness ==
    /\ pc = "done"
    /\ Called("TargetFlow")
    /\ state_result = "ValueError"
    /\ ~Called("flow.start")
    /\ exit_code = 1

\* C9: without an initial-state path no state file is read and flow.start
\* receives no seed state; with a path whose file cannot be read or parsed
\* the process ends with status 1 and a diagnostic on the error stream, and
\* flow.start is not invoked.
C9_InitialState ==
    /\ argv.initial_state_json = None =>
          /\ ~Called("open")
          /\ ~Called("State.loads")
          /\ Called("flow.start") => CallsOf("flow.start")[1].args[4] = None
    /\ state_result \in {"OSError", "UnicodeDecodeError", "ValueError"} =>
          /\ pc = "done"
          /\ exit_code = 1
          /\ Len(out) >= 1
          /\ out[Len(out)].fn = "traceback"
          /\ out[Len(out)].arg \in {"OSError", "ValueError"}
          /\ ~Called("flow.start")

C9_Witness ==
    /\ pc = "done"
    /\ state_result = "OSError"
    /\ argv.initial_state_json = "state.json"
    /\ exit_code = 1

\* C10: without --last-run, flow.start receives the run tag as given (None
\* when there was none) and runs/ is neither enumerated nor examined; the
\* from and to bounds are passed as supplied.
C10_TagPassedThrough ==
    (Called("flow.start") /\ ~argv.last_run) =>
        /\ CallsOf("flow.start")[1].args[1] = argv.run_tag
        /\ CallsOf("flow.start")[1].args[2] = argv.frm
        /\ CallsOf("flow.start")[1].args[3] = argv.to
        /\ ~Called("glob.glob")
        /\ ~Called("os.path.getmtime")
        /\ dir_entries = <<>>
        /\ other_entries = <<>>

C10_Witness ==
    /\ Called("flow.start")
    /\ ~argv.last_run
    /\ argv.run_tag = "t1"
    /\ argv.frm = "s1"
    /\ argv.to = None

====
